---- MODULE Spec2Model ----
(***************************************************************************)
(* Model of the Zolory ledger (src/database.py, class DatabaseManager):    *)
(* the users and user_balance tables and the operations that read and      *)
(* write them.  Every public method opens its own sqlite3 connection, so   *)
(* a method that only writes is one write transaction, and a method that   *)
(* SELECTs and then UPDATEs is a read followed by a write transaction.     *)
(* Timestamps are whole seconds since an arbitrary origin; isoformat() and *)
(* fromisoformat() are inverse on naive UTC datetimes, so a stored         *)
(* timestamp of users and user_balance is represented by the instant it    *)
(* denotes.  The moderation tables (warnings, mutes, bans,                 *)
(* moderation_records) keep their timestamps as the ISO text the code      *)
(* stores, because the sweepers compare that text inside SQL.              *)
(***************************************************************************)
EXTENDS Integers, Sequences, FiniteSets, TLC

(* ------------------------------ bounds --------------------------------- *)
MaxCoins == 3
MaxTotal == 4
MaxDays == 3
MaxXp == 3000
MaxRows == 2
MaxRep == 1
MaxGambles == 3

(* ------------------------- program constants --------------------------- *)
TimedeltaDay == 86400
ClaimCooldown == 86400
StreakWindow == 172800
XpPerLevel == 1000
DefaultLevel == 1
DefaultReward == 100

UserIds == {1, 2}
ServerIds == {1}
Keys == UserIds \X ServerIds
Usernames == {"ann"}

\* amounts a caller may pass; the methods take any Python int
NonNegAmounts == 0..2
IntAmounts == (-2)..2
RewardAmounts == {0, 2}
IntRewards == {-2, 0, 2}
XpInputs == {1500, -600, 1000, -1000}
RaceXpInputs == {1500, -600}

\* get_top_users: the allow-listed metrics, two other strings, and limits
Metrics == {"level", "coins", "gems", "experience", "reputation", "DROP TABLE", "LEVEL"}
Limits == 0..2
TopUserIds == {1, 2, 3}
TopXpInputs == {1000}
RepAmounts == {-1, 1}

\* record_gamble: the pairs that gamble and (bet_amount, winnings, result)
GambleKeys == UserIds \X {1, 2}
GambleCalls == {<<10, 20, "win">>, <<10, 0, "lose">>, <<3, 4, "draw">>}

\* moderators, reasons and durations (minutes) a caller may pass
ModeratorIds == {8, 9}
Reasons == {"spam", "raid"}
Durations == {0, 1, 60}
\* (user, moderator, reason) of the calls that are audited
AuditCalls == {<<1, 8, "spam">>, <<2, 9, "raid">>, <<2, 8, "raid">>}
\* duration: Optional[int] = None of ban_user: <<>> is None, <<d>> is d
OptionalDurations == {<<>>} \cup {<<d>> : d \in Durations}

\* timedelta(days=365*100), the length of a permanent ban
PermanentDays == 365 * 100

\* representative instants of the UTC clock: day boundaries and the seconds
\* next to them
Instants == {d * TimedeltaDay + e : d \in 0..MaxDays, e \in {-1, 0, 1}} \cap Nat

\* representative instants for sanctions of 0, 1 and 60 minutes issued at 0:
\* the expiry instants, the seconds next to them, 30 and 61 minutes
ModInstants == {0, 59, 60, 61, 1800, 3599, 3600, 3601, 3660}

VARIABLES
    now,            \* datetime.utcnow()
    users,          \* table users, in storage order
    user_balance,   \* table user_balance, in storage order
    ret,            \* what the last call returned to its caller
    calls,          \* the calls in flight, one per concurrent caller
    added,          \* per (user, server): sum of the amounts passed to add_coins
    removed,        \* per (user, server): sum of the amounts remove_coins took
    xp_applied,     \* per user: sum of the xp of the add_experience calls that returned
    last_claim,     \* per (user, server): the instant of the last successful claim, if any
    warnings,       \* table warnings, in storage order
    mutes,          \* table mutes, in storage order
    bans,           \* table bans, in storage order
    moderation_records, \* table moderation_records, in storage order
    mute_log,       \* per mute_id: when mute_user was called, with what, and whether lifted
    gamble_records, \* table gamble_records, in storage order
    gamble_log      \* per (user, server): what the record_gamble calls passed, summed

moderation == <<warnings, mutes, bans, moderation_records, mute_log>>

gambling == <<gamble_records, gamble_log>>

vars == <<now, users, user_balance, ret, calls, added, removed, xp_applied, last_claim,
          moderation, gambling>>

(* ------------------------------ helpers -------------------------------- *)
\* ret is the value the last call returned: ok is the bool of remove_* and
\* claim_daily_reward (and "row found" for add_experience), v1/v2 the numbers,
\* user_obj the User object of create_user (<<>> for every other call), text
\* the string argument and data the list or dict of the calls that have one
NoRet == [op |-> "none", user |-> 0, server |-> 0, amount |-> 0,
          ok |-> FALSE, v1 |-> 0, v2 |-> 0, user_obj |-> <<>>,
          text |-> "", data |-> <<>>]

Returned(op, u, s, amount, ok, v1, v2) ==
    [op |-> op, user |-> u, server |-> s, amount |-> amount,
     ok |-> ok, v1 |-> v1, v2 |-> v2, user_obj |-> <<>>,
     text |-> "", data |-> <<>>]

\* SELECT ... FROM user_balance WHERE user_id = ? AND server_id = ?
BalanceMatches(tbl, u, s) ==
    {i \in DOMAIN tbl : tbl[i].user_id = u /\ tbl[i].server_id = s}

HasBalance(tbl, u, s) == BalanceMatches(tbl, u, s) # {}

\* cursor.fetchone(): the first matching row in storage order
BalanceRow(tbl, u, s) ==
    tbl[CHOOSE i \in BalanceMatches(tbl, u, s) :
            \A j \in BalanceMatches(tbl, u, s) : i <= j]

\* the schema with coins INTEGER DEFAULT 1
NewBalanceRow_bonus(tbl, u, s, last_daily) ==
    [balance_id |-> Len(tbl) + 1, user_id |-> u, server_id |-> s,
     coins |-> 1, gems |-> 0, daily_streak |-> 0, last_daily |-> last_daily,
     total_earned |-> 0, total_spent |-> 0, bank_balance |-> 0]

\* the user_balance schema: column defaults, AUTOINCREMENT key
NewBalanceRow(tbl, u, s, last_daily) ==
    [balance_id |-> Len(tbl) + 1, user_id |-> u, server_id |-> s,
     coins |-> 0, gems |-> 0, daily_streak |-> 0, last_daily |-> last_daily,
     total_earned |-> 0, total_spent |-> 0, bank_balance |-> 0]

\* INSERT OR REPLACE: the row of the pair is replaced by a new one
InsertOrReplaceBalance(tbl, u, s, last_daily) ==
    IF HasBalance(tbl, u, s)
    THEN [i \in DOMAIN tbl |->
            IF i \in BalanceMatches(tbl, u, s)
            THEN [NewBalanceRow(tbl, u, s, last_daily) EXCEPT !.balance_id = tbl[i].balance_id]
            ELSE tbl[i]]
    ELSE Append(tbl, NewBalanceRow(tbl, u, s, last_daily))

\* the INSERT on a table without the UNIQUE(user_id, server_id) constraint
InsertOrIgnoreBalance_plain(tbl, u, s, last_daily) ==
    Append(tbl, NewBalanceRow(tbl, u, s, last_daily))

\* INSERT OR IGNORE INTO user_balance: UNIQUE(user_id, server_id) makes the
\* insert a no-op when a row for the pair exists
InsertOrIgnoreBalance(tbl, u, s, last_daily) ==
    IF HasBalance(tbl, u, s)
    THEN tbl
    ELSE Append(tbl, NewBalanceRow(tbl, u, s, last_daily))

\* the concurrent callers, and a caller that is not inside a call
Procs == {"p1", "p2"}
IdleCall == [pc |-> "idle", op |-> "none", user |-> 0, server |-> 0, amount |-> 0,
             t |-> 0, seen |-> 0, seen2 |-> 0, ok |-> FALSE, v1 |-> 0, v2 |-> 0]

\* the sum a ghost total tracks for one (user, server)
Bump(f, u, s, amount) == [f EXCEPT ![<<u, s>>] = @ + amount]

\* the guards that keep the counters finite
BalanceBounded(tbl) ==
    \A i \in DOMAIN tbl :
        /\ tbl[i].coins \in (-MaxCoins)..MaxCoins
        /\ tbl[i].gems \in (-MaxCoins)..MaxCoins
        /\ tbl[i].total_earned \in (-MaxTotal)..MaxTotal
        /\ tbl[i].total_spent \in (-MaxTotal)..MaxTotal

(* --------------------------- initial state ----------------------------- *)
\* no gamble was recorded in a new database file
InitGambling ==
    /\ gamble_records = <<>>
    /\ gamble_log = [k \in GambleKeys |->
                        [games |-> 0, wins |-> 0, losses |-> 0, bet |-> 0, winnings |-> 0]]


\* the moderation tables of a new database file are empty
InitModeration ==
    /\ warnings = <<>>
    /\ mutes = <<>>
    /\ bans = <<>>
    /\ moderation_records = <<>>
    /\ mute_log = <<>>


\* init_database: CREATE TABLE IF NOT EXISTS on a new file leaves every
\* table empty
Init ==
    /\ now = 0
    /\ users = <<>>
    /\ user_balance = <<>>
    /\ ret = NoRet
    /\ calls = [p \in Procs |-> IdleCall]
    /\ added = [k \in Keys |-> 0]
    /\ removed = [k \in Keys |-> 0]
    /\ xp_applied = [u \in UserIds |-> 0]
    /\ last_claim = [k \in Keys |-> {}]
    /\ InitModeration
    /\ InitGambling

(* ------------------------- economy operations -------------------------- *)
create_user_balance(u, s) ==
    /\ user_balance' = InsertOrIgnoreBalance(user_balance, u, s, now - TimedeltaDay)
    /\ ret' = Returned("create_user_balance", u, s, 0, TRUE, 0, 0)
    /\ UNCHANGED <<now, users, calls, added, removed, xp_applied, last_claim, moderation, gambling>>

\* the UPDATE without its total_earned column
AddCoinsRow_coinsonly(r, amount) == [r EXCEPT !.coins = @ + amount]

\* UPDATE user_balance SET coins = coins + ?, total_earned = total_earned + ?
AddCoinsRow(r, amount) ==
    [r EXCEPT !.coins = @ + amount, !.total_earned = @ + amount]

add_coins(u, s, amount) ==
    /\ LET ensured == InsertOrIgnoreBalance(user_balance, u, s, now - TimedeltaDay)
       IN user_balance' =
            [i \in DOMAIN ensured |->
                IF i \in BalanceMatches(ensured, u, s)
                THEN AddCoinsRow(ensured[i], amount)
                ELSE ensured[i]]
    /\ BalanceBounded(user_balance')
    /\ ret' = Returned("add_coins", u, s, amount, TRUE, 0, 0)
    /\ added' = Bump(added, u, s, amount)
    /\ UNCHANGED <<now, users, calls, removed, xp_applied, last_claim, moderation, gambling>>

\* the funds check with its comparison turned around
RemoveCoinsCheck_inverted(r, amount) == r.coins > amount

\* row["coins"] < amount: insufficient funds
RemoveCoinsCheck(r, amount) == r.coins < amount

\* UPDATE user_balance SET coins = coins - ?, total_spent = total_spent + ?
RemoveCoinsUpdate(tbl, u, s, amount) ==
    [i \in DOMAIN tbl |->
        IF i \in BalanceMatches(tbl, u, s)
        THEN [tbl[i] EXCEPT !.coins = @ - amount, !.total_spent = @ + amount]
        ELSE tbl[i]]

remove_coins(u, s, amount) ==
    IF \/ ~HasBalance(user_balance, u, s)
       \/ RemoveCoinsCheck(BalanceRow(user_balance, u, s), amount)
    THEN /\ ret' = Returned("remove_coins", u, s, amount, FALSE, 0, 0)
         /\ UNCHANGED <<now, users, user_balance, calls, added, removed,
                        xp_applied, last_claim, moderation, gambling>>
    ELSE /\ user_balance' = RemoveCoinsUpdate(user_balance, u, s, amount)
         /\ BalanceBounded(user_balance')
         /\ ret' = Returned("remove_coins", u, s, amount, TRUE, 0, 0)
         /\ removed' = Bump(removed, u, s, amount)
         /\ UNCHANGED <<now, users, calls, added, xp_applied, last_claim, moderation, gambling>>

add_gems(u, s, amount) ==
    /\ LET ensured == InsertOrIgnoreBalance(user_balance, u, s, now - TimedeltaDay)
       IN user_balance' =
            [i \in DOMAIN ensured |->
                IF i \in BalanceMatches(ensured, u, s)
                THEN [ensured[i] EXCEPT !.gems = @ + amount]
                ELSE ensured[i]]
    /\ BalanceBounded(user_balance')
    /\ ret' = Returned("add_gems", u, s, amount, TRUE, 0, 0)
    /\ UNCHANGED <<now, users, calls, added, removed, xp_applied, last_claim, moderation, gambling>>

\* the gems check reading the coins column
RemoveGemsCheck_coins(r, amount) == r.coins < amount

\* row["gems"] < amount: insufficient gems
RemoveGemsCheck(r, amount) == r.gems < amount

\* UPDATE user_balance SET gems = gems - ?
RemoveGemsUpdate(tbl, u, s, amount) ==
    [i \in DOMAIN tbl |->
        IF i \in BalanceMatches(tbl, u, s)
        THEN [tbl[i] EXCEPT !.gems = @ - amount]
        ELSE tbl[i]]

remove_gems(u, s, amount) ==
    IF \/ ~HasBalance(user_balance, u, s)
       \/ RemoveGemsCheck(BalanceRow(user_balance, u, s), amount)
    THEN /\ ret' = Returned("remove_gems", u, s, amount, FALSE, 0, 0)
         /\ UNCHANGED <<now, users, user_balance, calls, added, removed,
                        xp_applied, last_claim, moderation, gambling>>
    ELSE /\ user_balance' = RemoveGemsUpdate(user_balance, u, s, amount)
         /\ BalanceBounded(user_balance')
         /\ ret' = Returned("remove_gems", u, s, amount, TRUE, 0, 0)
         /\ UNCHANGED <<now, users, calls, added, removed, xp_applied, last_claim, moderation, gambling>>

(* ----------------------------- daily claim ---------------------------- *)
\* the cooldown taken as one hour instead of one day
ClaimRejected_hour(elapsed) == elapsed < ClaimCooldown \div 24

\* (now - last_daily).total_seconds() < 86400: the claim is rejected
ClaimRejected(elapsed) == elapsed < ClaimCooldown

\* the streak window closed one second late
NewStreak_inclusive(streak, elapsed) ==
    IF elapsed <= StreakWindow THEN streak + 1 ELSE 1

\* the streak a successful claim writes
NewStreak(streak, elapsed) ==
    IF elapsed < StreakWindow THEN streak + 1 ELSE 1

ClaimRow(r, reward_amount, t, new_streak) ==
    [r EXCEPT !.coins = @ + reward_amount, !.last_daily = t,
              !.daily_streak = new_streak, !.total_earned = @ + reward_amount]

\* UPDATE user_balance SET ... WHERE user_id = ? AND server_id = ?
ClaimUpdate(tbl, u, s, reward_amount, t, new_streak) ==
    [i \in DOMAIN tbl |->
        IF i \in BalanceMatches(tbl, u, s)
        THEN ClaimRow(tbl[i], reward_amount, t, new_streak)
        ELSE tbl[i]]

claim_daily_reward(u, s, reward_amount) ==
    IF ~HasBalance(user_balance, u, s)
    THEN /\ ret' = Returned("claim_daily_reward", u, s, reward_amount, FALSE, 0, 0)
         /\ UNCHANGED <<now, users, user_balance, calls, added, removed,
                        xp_applied, last_claim, moderation, gambling>>
    ELSE LET row == BalanceRow(user_balance, u, s)
             elapsed == now - row.last_daily
             new_streak == NewStreak(row.daily_streak, elapsed)
         IN IF ClaimRejected(elapsed)
            THEN /\ ret' = Returned("claim_daily_reward", u, s, reward_amount,
                                    FALSE, row.daily_streak, 0)
                 /\ UNCHANGED <<now, users, user_balance, calls, added, removed,
                                xp_applied, last_claim, moderation, gambling>>
            ELSE /\ user_balance' =
                        ClaimUpdate(user_balance, u, s, reward_amount, now, new_streak)
                 /\ ret' = Returned("claim_daily_reward", u, s, reward_amount,
                                    TRUE, new_streak, 0)
                 /\ last_claim' = [last_claim EXCEPT ![<<u, s>>] = {now}]
                 /\ UNCHANGED <<now, users, calls, added, removed, xp_applied, moderation, gambling>>

\* the clock moves on between two calls
Tick(t) ==
    /\ t \in Instants
    /\ t > now
    /\ now' = t
    /\ ret' = NoRet
    /\ UNCHANGED <<users, user_balance, calls, added, removed, xp_applied, last_claim, moderation, gambling>>

(* --------------------------- user operations --------------------------- *)
\* SELECT ... FROM users WHERE user_id = ?
UserMatches(tbl, u) == {i \in DOMAIN tbl : tbl[i].user_id = u}

HasUser(tbl, u) == UserMatches(tbl, u) # {}

UserRow(tbl, u) ==
    tbl[CHOOSE i \in UserMatches(tbl, u) : \A j \in UserMatches(tbl, u) : i <= j]

\* the users schema: the columns create_user passes and the column defaults
NewUserRow(u, username, t) ==
    [user_id |-> u, username |-> username, coins |-> 0, gems |-> 0,
     level |-> DefaultLevel, experience |-> 0, total_messages |-> 0,
     join_date |-> t, last_activity |-> t, reputation |-> 0]

\* INSERT OR IGNORE INTO users: user_id INTEGER PRIMARY KEY is the rowid, so
\* the table is stored in user_id order
InsertOrIgnoreUser(tbl, u, username, t) ==
    IF HasUser(tbl, u)
    THEN tbl
    ELSE SelectSeq(tbl, LAMBDA r : r.user_id < u)
         \o <<NewUserRow(u, username, t)>>
         \o SelectSeq(tbl, LAMBDA r : r.user_id > u)

create_user(u, username) ==
    /\ users' = InsertOrIgnoreUser(users, u, username, now)
    /\ ret' = [Returned("create_user", u, 0, 0, TRUE, 0, 0)
                 EXCEPT !.user_obj = <<NewUserRow(u, username, now)>>]
    /\ UNCHANGED <<now, user_balance, calls, added, removed, xp_applied, last_claim, moderation, gambling>>

\* the level with a division that truncates towards zero, as int(new_xp / 1000)
LevelOf_truncating(new_xp) ==
    1 + (IF new_xp < 0 THEN -((-new_xp) \div XpPerLevel) ELSE new_xp \div XpPerLevel)

\* new_level = 1 + (new_xp // 1000); // rounds towards minus infinity, as \div
LevelOf(new_xp) == 1 + (new_xp \div XpPerLevel)

\* UPDATE users SET experience = ?, level = ? WHERE user_id = ?
ExperienceUpdate(tbl, u, new_xp, new_level) ==
    [i \in DOMAIN tbl |->
        IF i \in UserMatches(tbl, u)
        THEN [tbl[i] EXCEPT !.experience = new_xp, !.level = new_level]
        ELSE tbl[i]]

\* add_experience creating the missing row before it adds
add_experience_upsert(u, xp) ==
    IF ~HasUser(users, u)
    THEN /\ users' = InsertOrIgnoreUser(users, u, "", now)
         /\ ret' = Returned("add_experience", u, 0, xp, FALSE, 0, 0)
         /\ UNCHANGED <<now, user_balance, calls, added, removed,
                        xp_applied, last_claim, moderation, gambling>>
    ELSE LET new_xp == UserRow(users, u).experience + xp
             new_level == LevelOf(new_xp)
         IN /\ new_xp \in (-MaxXp)..MaxXp
            /\ users' = ExperienceUpdate(users, u, new_xp, new_level)
            /\ ret' = Returned("add_experience", u, 0, xp, TRUE, new_level, new_xp)
            /\ xp_applied' = [xp_applied EXCEPT ![u] = @ + xp]
            /\ UNCHANGED <<now, user_balance, calls, added, removed, last_claim, moderation, gambling>>

add_experience(u, xp) ==
    IF ~HasUser(users, u)
    THEN /\ ret' = Returned("add_experience", u, 0, xp, FALSE, 0, 0)
         /\ UNCHANGED <<now, users, user_balance, calls, added, removed,
                        xp_applied, last_claim, moderation, gambling>>
    ELSE LET new_xp == UserRow(users, u).experience + xp
             new_level == LevelOf(new_xp)
         IN /\ new_xp \in (-MaxXp)..MaxXp
            /\ users' = ExperienceUpdate(users, u, new_xp, new_level)
            /\ ret' = Returned("add_experience", u, 0, xp, TRUE, new_level, new_xp)
            /\ xp_applied' = [xp_applied EXCEPT ![u] = @ + xp]
            /\ UNCHANGED <<now, user_balance, calls, added, removed, last_claim, moderation, gambling>>

\* UPDATE users SET reputation = reputation + ? WHERE user_id = ?
add_reputation(u, amount) ==
    /\ users' = [i \in DOMAIN users |->
                    IF i \in UserMatches(users, u)
                    THEN [users[i] EXCEPT !.reputation = @ + amount]
                    ELSE users[i]]
    /\ \A i \in DOMAIN users' : users'[i].reputation \in (-MaxRep)..MaxRep
    /\ ret' = Returned("add_reputation", u, 0, amount, TRUE, 0, 0)
    /\ UNCHANGED <<now, user_balance, calls, added, removed, xp_applied, last_claim,
                   moderation, gambling>>

ValidMetrics == {"level", "coins", "gems", "experience", "reputation"}

\* the fallback taken to be reputation
EffectiveMetric_reputation(metric) ==
    IF metric \notin ValidMetrics THEN "reputation" ELSE metric

\* if metric not in valid_metrics: metric = "level"
EffectiveMetric(metric) ==
    IF metric \notin ValidMetrics THEN "level" ELSE metric

\* ORDER BY column DESC: the rows by descending value, rows of equal value
\* in the order of the table scan
OrderByDesc(tbl, column) ==
    LET Before(i) == {j \in DOMAIN tbl :
                        \/ tbl[j][column] > tbl[i][column]
                        \/ tbl[j][column] = tbl[i][column] /\ j < i}
    IN [k \in 1..Len(tbl) |->
            tbl[CHOOSE i \in DOMAIN tbl : Cardinality(Before(i)) = k - 1]]

\* LIMIT ?: a negative limit is no limit
LimitRows(rows, limit) ==
    IF limit < 0 \/ limit >= Len(rows) THEN rows ELSE SubSeq(rows, 1, limit)

TopUsers(metric, limit) ==
    LimitRows(OrderByDesc(users, EffectiveMetric(metric)), limit)

get_top_users(metric, limit) ==
    /\ ret' = [Returned("get_top_users", 0, 0, limit, TRUE, 0, 0)
                 EXCEPT !.text = metric, !.data = TopUsers(metric, limit)]
    /\ UNCHANGED <<now, users, user_balance, calls, added, removed, xp_applied,
                   last_claim, moderation, gambling>>

(* ------------------------ moderation operations ------------------------ *)
\* a datetime is <<days, seconds of the day>>, as timedelta normalises it
Utcnow == <<now \div TimedeltaDay, now % TimedeltaDay>>

\* dt + timedelta(minutes=m) with the minutes taken as seconds
PlusMinutes_seconds(dt, m) ==
    LET sec == dt[2] + m
    IN <<dt[1] + (sec \div TimedeltaDay), sec % TimedeltaDay>>

\* dt + timedelta(minutes=m)
PlusMinutes(dt, m) ==
    LET sec == dt[2] + 60 * m
    IN <<dt[1] + (sec \div TimedeltaDay), sec % TimedeltaDay>>

\* dt + timedelta(days=d)
PlusDays(dt, d) == <<dt[1] + d, dt[2]>>

\* datetime.isoformat(): fixed-width fields, most significant first
\* (the date as one field, then hour, minute, second)
IsoFormat(dt) == <<dt[1], dt[2] \div 3600, (dt[2] % 3600) \div 60, dt[2] % 60>>

\* datetime.fromisoformat()
FromIsoFormat(iso) == <<iso[1], iso[2] * 3600 + iso[3] * 60 + iso[4]>>

\* a > b on datetime objects
DatetimeAfter(a, b) == a[1] > b[1] \/ (a[1] = b[1] /\ a[2] > b[2])

\* a <= b on the ISO texts
TextBefore_inclusive(a, b) ==
    \/ a = b
    \/ \E i \in 1..4 : a[i] < b[i] /\ \A j \in 1..(i - 1) : a[j] = b[j]

\* a < b on TEXT values inside SQLite: the first differing field decides
TextBefore(a, b) ==
    \E i \in 1..4 : a[i] < b[i] /\ \A j \in 1..(i - 1) : a[j] = b[j]

\* WHERE server_id = ? AND user_id = ?
PairRows(tbl, s, u) ==
    {i \in DOMAIN tbl : tbl[i].server_id = s /\ tbl[i].user_id = u}

\* WHERE server_id = ? AND user_id = ? AND active = 1
ActiveRows(tbl, s, u) == {i \in PairRows(tbl, s, u) : tbl[i].active = 1}

\* is_user_muted / is_user_banned: fetchone() takes the first matching row
\* of the table scan, which is the one with the lowest rowid
IsSanctioned(tbl, s, u) ==
    IF ActiveRows(tbl, s, u) = {}
    THEN FALSE
    ELSE LET first == CHOOSE i \in ActiveRows(tbl, s, u) :
                          \A j \in ActiveRows(tbl, s, u) : i <= j
             expire_time == FromIsoFormat(tbl[first].expire_time)
         IN ~DatetimeAfter(Utcnow, expire_time)

\* the UPDATE restricted to the latest row of the pair
LiftRows_latest(tbl, s, u) ==
    [i \in DOMAIN tbl |->
        IF i \in PairRows(tbl, s, u) /\ \A j \in PairRows(tbl, s, u) : j <= i
        THEN [tbl[i] EXCEPT !.active = 0]
        ELSE tbl[i]]

\* UPDATE ... SET active = 0 WHERE server_id = ? AND user_id = ?
LiftRows(tbl, s, u) ==
    [i \in DOMAIN tbl |->
        IF i \in PairRows(tbl, s, u) THEN [tbl[i] EXCEPT !.active = 0] ELSE tbl[i]]

\* UPDATE ... SET active = 0 WHERE expire_time < ? AND active = 1
SweepRows(tbl, iso_now) ==
    [i \in DOMAIN tbl |->
        IF TextBefore(tbl[i].expire_time, iso_now) /\ tbl[i].active = 1
        THEN [tbl[i] EXCEPT !.active = 0]
        ELSE tbl[i]]

\* the audit row with user and moderator exchanged
AuditRow_swapped(tbl, s, u, m, action_type, reason, duration, iso_now) ==
    [mod_id |-> Len(tbl) + 1, server_id |-> s, user_id |-> m, moderator_id |-> u,
     action_type |-> action_type, reason |-> reason, duration |-> duration,
     timestamp |-> iso_now]

\* INSERT INTO moderation_records; duration is <<>> for NULL
AuditRow(tbl, s, u, m, action_type, reason, duration, iso_now) ==
    [mod_id |-> Len(tbl) + 1, server_id |-> s, user_id |-> u, moderator_id |-> m,
     action_type |-> action_type, reason |-> reason, duration |-> duration,
     timestamp |-> iso_now]

warn_user(s, u, m, reason) ==
    /\ Len(warnings) < MaxRows
    /\ warnings' = Append(warnings,
            [warning_id |-> Len(warnings) + 1, server_id |-> s, user_id |-> u,
             moderator_id |-> m, reason |-> reason, timestamp |-> IsoFormat(Utcnow)])
    /\ moderation_records' = Append(moderation_records,
            AuditRow(moderation_records, s, u, m, "warn", reason, <<>>, IsoFormat(Utcnow)))
    /\ ret' = Returned("warn_user", u, s, 0, TRUE, Len(warnings) + 1, 0)
    /\ UNCHANGED <<now, users, user_balance, calls, added, removed, xp_applied,
                   last_claim, mutes, bans, mute_log, gambling>>

\* mute_user reusing the latest row of the pair when there is one
mute_user_reactivate(s, u, m, reason, duration) ==
    LET expire_time == PlusMinutes(Utcnow, duration)
        latest == {i \in PairRows(mutes, s, u) : \A j \in PairRows(mutes, s, u) : j <= i}
        row == [mute_id |-> Len(mutes) + 1, server_id |-> s, user_id |-> u,
                moderator_id |-> m, reason |-> reason, duration |-> <<duration>>,
                mute_time |-> IsoFormat(Utcnow), expire_time |-> IsoFormat(expire_time),
                active |-> 1]
    IN /\ mutes' = IF latest = {}
                   THEN Append(mutes, row)
                   ELSE [i \in DOMAIN mutes |->
                            IF i \in latest
                            THEN [row EXCEPT !.mute_id = mutes[i].mute_id]
                            ELSE mutes[i]]
       /\ mute_log' = IF latest = {}
                      THEN Append(mute_log, [t |-> now, d |-> duration, lifted |-> FALSE])
                      ELSE mute_log
       /\ ret' = Returned("mute_user", u, s, duration, TRUE, Len(mutes'), 1)
       /\ UNCHANGED <<now, users, user_balance, calls, added, removed, xp_applied,
                      last_claim, warnings, bans, moderation_records, gambling>>

mute_user(s, u, m, reason, duration) ==
    LET expire_time == PlusMinutes(Utcnow, duration)
    IN /\ Len(mutes) < MaxRows
       /\ mutes' = Append(mutes,
            [mute_id |-> Len(mutes) + 1, server_id |-> s, user_id |-> u,
             moderator_id |-> m, reason |-> reason, duration |-> <<duration>>,
             mute_time |-> IsoFormat(Utcnow), expire_time |-> IsoFormat(expire_time),
             active |-> 1])
       /\ moderation_records' = Append(moderation_records,
            AuditRow(moderation_records, s, u, m, "mute", reason, <<duration>>,
                     IsoFormat(Utcnow)))
       /\ mute_log' = Append(mute_log, [t |-> now, d |-> duration, lifted |-> FALSE])
       /\ ret' = Returned("mute_user", u, s, duration, TRUE, Len(mutes) + 1, 1)
       /\ UNCHANGED <<now, users, user_balance, calls, added, removed, xp_applied,
                      last_claim, warnings, bans, gambling>>

unmute_user(s, u) ==
    /\ mutes' = LiftRows(mutes, s, u)
    /\ mute_log' = [i \in DOMAIN mute_log |->
                        IF i \in PairRows(mutes, s, u)
                        THEN [mute_log[i] EXCEPT !.lifted = TRUE]
                        ELSE mute_log[i]]
    /\ ret' = Returned("unmute_user", u, s, 0, TRUE, 0, 0)
    /\ UNCHANGED <<now, users, user_balance, calls, added, removed, xp_applied,
                   last_claim, warnings, bans, moderation_records, gambling>>

\* is_user_muted writing the expiry it found back to the table
is_user_muted_writeback(s, u) ==
    /\ ret' = Returned("is_user_muted", u, s, 0, IsSanctioned(mutes, s, u), 0, 0)
    /\ mutes' = IF IsSanctioned(mutes, s, u)
                THEN mutes
                ELSE [i \in DOMAIN mutes |->
                        IF i \in ActiveRows(mutes, s, u)
                        THEN [mutes[i] EXCEPT !.active = 0]
                        ELSE mutes[i]]
    /\ UNCHANGED <<now, users, user_balance, calls, added, removed, xp_applied,
                   last_claim, warnings, bans, moderation_records, mute_log, gambling>>

is_user_muted(s, u) ==
    /\ ret' = Returned("is_user_muted", u, s, 0, IsSanctioned(mutes, s, u), 0, 0)
    /\ UNCHANGED <<now, users, user_balance, calls, added, removed, xp_applied,
                   last_claim, moderation, gambling>>

\* if duration: a duration of None and a duration of 0 both take the else branch
ban_user(s, u, m, reason, duration) ==
    LET expire_time == IF duration # <<>> /\ duration[1] # 0
                       THEN PlusMinutes(Utcnow, duration[1])
                       ELSE PlusDays(Utcnow, PermanentDays)
    IN /\ Len(bans) < MaxRows
       /\ bans' = Append(bans,
            [ban_id |-> Len(bans) + 1, server_id |-> s, user_id |-> u,
             moderator_id |-> m, reason |-> reason, duration |-> duration,
             ban_time |-> IsoFormat(Utcnow), expire_time |-> IsoFormat(expire_time),
             active |-> 1])
       /\ moderation_records' = Append(moderation_records,
            AuditRow(moderation_records, s, u, m, "ban", reason, duration,
                     IsoFormat(Utcnow)))
       /\ ret' = Returned("ban_user", u, s, IF duration = <<>> THEN 0 ELSE duration[1],
                          TRUE, Len(bans) + 1, Len(duration))
       /\ UNCHANGED <<now, users, user_balance, calls, added, removed, xp_applied,
                      last_claim, warnings, mutes, mute_log, gambling>>

unban_user(s, u) ==
    /\ bans' = LiftRows(bans, s, u)
    /\ ret' = Returned("unban_user", u, s, 0, TRUE, 0, 0)
    /\ UNCHANGED <<now, users, user_balance, calls, added, removed, xp_applied,
                   last_claim, warnings, mutes, moderation_records, mute_log, gambling>>

is_user_banned(s, u) ==
    /\ ret' = Returned("is_user_banned", u, s, 0, IsSanctioned(bans, s, u), 0, 0)
    /\ UNCHANGED <<now, users, user_balance, calls, added, removed, xp_applied,
                   last_claim, moderation, gambling>>

cleanup_expired_mutes ==
    /\ mutes' = SweepRows(mutes, IsoFormat(Utcnow))
    /\ ret' = Returned("cleanup_expired_mutes", 0, 0, 0, TRUE, 0, 0)
    /\ UNCHANGED <<now, users, user_balance, calls, added, removed, xp_applied,
                   last_claim, warnings, bans, moderation_records, mute_log, gambling>>

cleanup_expired_bans ==
    /\ bans' = SweepRows(bans, IsoFormat(Utcnow))
    /\ ret' = Returned("cleanup_expired_bans", 0, 0, 0, TRUE, 0, 0)
    /\ UNCHANGED <<now, users, user_balance, calls, added, removed, xp_applied,
                   last_claim, warnings, mutes, moderation_records, mute_log, gambling>>

\* the UTC clock reaches a later instant between two calls
Elapse(t) ==
    /\ t \in ModInstants
    /\ t > now
    /\ now' = t
    /\ ret' = NoRet
    /\ UNCHANGED <<users, user_balance, calls, added, removed, xp_applied,
                   last_claim, moderation, gambling>>

(* ------------------------- gambling operations ------------------------- *)
\* the rows of every server of the user
GambleRows_anyserver(tbl, u, s) == SelectSeq(tbl, LAMBDA r : r.user_id = u)

\* FROM gamble_records WHERE user_id = ? AND server_id = ?
GambleRows(tbl, u, s) ==
    SelectSeq(tbl, LAMBDA r : r.user_id = u /\ r.server_id = s)

RECURSIVE Total(_)
\* the sum of a sequence of integers
Total(values) ==
    IF values = <<>> THEN 0 ELSE Head(values) + Total(Tail(values))

\* SUM(...) of a column: NULL, here <<>>, over no rows
SqlSum(values) == IF values = <<>> THEN <<>> ELSE <<Total(values)>>

\* AVG(...) of a column: NULL over no rows, else the quotient sum / count,
\* kept as the pair <<sum, count>>
SqlAvg(values) == IF values = <<>> THEN <<>> ELSE <<Total(values), Len(values)>>

record_gamble(u, s, game_type, bet_amount, winnings, result) ==
    /\ Len(gamble_records) < MaxGambles
    /\ gamble_records' = Append(gamble_records,
            [gamble_id |-> Len(gamble_records) + 1, user_id |-> u, server_id |-> s,
             game_type |-> game_type, bet_amount |-> bet_amount, winnings |-> winnings,
             result |-> result, timestamp |-> IsoFormat(Utcnow)])
    /\ gamble_log' = [gamble_log EXCEPT ![<<u, s>>] =
            [games |-> @.games + 1,
             wins |-> @.wins + (IF result = "win" THEN 1 ELSE 0),
             losses |-> @.losses + (IF result = "lose" THEN 1 ELSE 0),
             bet |-> @.bet + bet_amount,
             winnings |-> @.winnings + winnings]]
    /\ ret' = Returned("record_gamble", u, s, bet_amount, TRUE,
                       Len(gamble_records) + 1, winnings)
    /\ UNCHANGED <<now, users, user_balance, calls, added, removed, xp_applied,
                   last_claim, moderation>>

get_user_gambling_stats(u, s) ==
    /\ LET rows == GambleRows(gamble_records, u, s)
           ids == DOMAIN rows
       IN ret' = [Returned("get_user_gambling_stats", u, s, 0, TRUE, 0, 0)
                    EXCEPT !.data =
                        [total_games |-> Len(rows),
                         wins |-> SqlSum([i \in ids |->
                                    IF rows[i].result = "win" THEN 1 ELSE 0]),
                         losses |-> SqlSum([i \in ids |->
                                    IF rows[i].result = "lose" THEN 1 ELSE 0]),
                         total_bet |-> SqlSum([i \in ids |-> rows[i].bet_amount]),
                         total_winnings |-> SqlSum([i \in ids |-> rows[i].winnings]),
                         avg_profit |-> SqlAvg([i \in ids |->
                                    rows[i].winnings - rows[i].bet_amount])]]
    /\ UNCHANGED <<now, users, user_balance, calls, added, removed, xp_applied,
                   last_claim, moderation, gambling>>

(* -------------------------- concurrent callers ------------------------- *)
\* Two callers run the same methods at once, each on its own connection.
\* sqlite3 opens no transaction for a SELECT, so the row a method fetched is
\* not locked: another connection may commit before the method's UPDATE.
\* The UPDATE and its commit() are one write transaction, which SQLite
\* serialises, so they are one step here.
Selected(op, u, s, amount, t, seen, seen2) ==
    [pc |-> "selected", op |-> op, user |-> u, server |-> s, amount |-> amount,
     t |-> t, seen |-> seen, seen2 |-> seen2, ok |-> FALSE, v1 |-> 0, v2 |-> 0]

Finished(c, ok, v1, v2) ==
    [c EXCEPT !.pc = "returned", !.ok = ok, !.v1 = v1, !.v2 = v2]

CanCall(p) == calls[p].pc # "selected"

\* remove_coins up to its early return: the SELECT and the funds check
remove_coins_select(p, u, s, amount) ==
    /\ CanCall(p)
    /\ LET has == HasBalance(user_balance, u, s)
           c == Selected("remove_coins", u, s, amount, now,
                         IF has THEN BalanceRow(user_balance, u, s).coins ELSE 0, 0)
       IN calls' = [calls EXCEPT ![p] =
                        IF ~has \/ RemoveCoinsCheck(BalanceRow(user_balance, u, s), amount)
                        THEN Finished(c, FALSE, 0, 0)
                        ELSE c]
    /\ UNCHANGED <<now, users, user_balance, ret, added, removed, xp_applied, last_claim, moderation, gambling>>

\* remove_coins from its UPDATE to return True
remove_coins_update(p) ==
    /\ calls[p].pc = "selected"
    /\ calls[p].op = "remove_coins"
    /\ user_balance' =
            RemoveCoinsUpdate(user_balance, calls[p].user, calls[p].server, calls[p].amount)
    /\ calls' = [calls EXCEPT ![p] = Finished(@, TRUE, 0, 0)]
    /\ removed' = Bump(removed, calls[p].user, calls[p].server, calls[p].amount)
    /\ UNCHANGED <<now, users, ret, added, xp_applied, last_claim, moderation, gambling>>

remove_gems_select(p, u, s, amount) ==
    /\ CanCall(p)
    /\ LET has == HasBalance(user_balance, u, s)
           c == Selected("remove_gems", u, s, amount, now,
                         IF has THEN BalanceRow(user_balance, u, s).gems ELSE 0, 0)
       IN calls' = [calls EXCEPT ![p] =
                        IF ~has \/ RemoveGemsCheck(BalanceRow(user_balance, u, s), amount)
                        THEN Finished(c, FALSE, 0, 0)
                        ELSE c]
    /\ UNCHANGED <<now, users, user_balance, ret, added, removed, xp_applied, last_claim, moderation, gambling>>

remove_gems_update(p) ==
    /\ calls[p].pc = "selected"
    /\ calls[p].op = "remove_gems"
    /\ user_balance' =
            RemoveGemsUpdate(user_balance, calls[p].user, calls[p].server, calls[p].amount)
    /\ calls' = [calls EXCEPT ![p] = Finished(@, TRUE, 0, 0)]
    /\ UNCHANGED <<now, users, ret, added, removed, xp_applied, last_claim, moderation, gambling>>

\* claim_daily_reward up to its early returns: the SELECT, now = utcnow()
\* and the 24h check; seen is the streak read, seen2 the last_daily read
claim_daily_reward_select(p, u, s, reward_amount) ==
    /\ CanCall(p)
    /\ IF ~HasBalance(user_balance, u, s)
       THEN calls' = [calls EXCEPT ![p] =
                Finished(Selected("claim_daily_reward", u, s, reward_amount, now, 0, 0),
                         FALSE, 0, 0)]
       ELSE LET row == BalanceRow(user_balance, u, s)
                c == Selected("claim_daily_reward", u, s, reward_amount, now,
                              row.daily_streak, row.last_daily)
            IN calls' = [calls EXCEPT ![p] =
                    IF ClaimRejected(now - row.last_daily)
                    THEN Finished(c, FALSE, row.daily_streak, 0)
                    ELSE c]
    /\ UNCHANGED <<now, users, user_balance, ret, added, removed, xp_applied, last_claim, moderation, gambling>>

\* claim_daily_reward from the streak computation to return (True, new_streak)
claim_daily_reward_update(p) ==
    /\ calls[p].pc = "selected"
    /\ calls[p].op = "claim_daily_reward"
    /\ LET c == calls[p]
           new_streak == NewStreak(c.seen, c.t - c.seen2)
       IN /\ user_balance' =
                ClaimUpdate(user_balance, c.user, c.server, c.amount, c.t, new_streak)
          /\ calls' = [calls EXCEPT ![p] = Finished(@, TRUE, new_streak, 0)]
          /\ last_claim' = [last_claim EXCEPT ![<<c.user, c.server>>] = {c.t}]
    /\ UNCHANGED <<now, users, ret, added, removed, xp_applied, moderation, gambling>>

\* add_experience up to its early return: the SELECT; seen is the experience read
add_experience_select(p, u, xp) ==
    /\ CanCall(p)
    /\ calls' = [calls EXCEPT ![p] =
            IF ~HasUser(users, u)
            THEN Finished(Selected("add_experience", u, 0, xp, now, 0, 0), FALSE, 0, 0)
            ELSE Selected("add_experience", u, 0, xp, now, UserRow(users, u).experience, 0)]
    /\ UNCHANGED <<now, users, user_balance, ret, added, removed, xp_applied, last_claim, moderation, gambling>>

\* add_experience from new_xp to return (new_level, new_xp)
add_experience_update(p) ==
    /\ calls[p].pc = "selected"
    /\ calls[p].op = "add_experience"
    /\ LET c == calls[p]
           new_xp == c.seen + c.amount
           new_level == LevelOf(new_xp)
       IN /\ new_xp \in (-MaxXp)..MaxXp
          /\ xp_applied[c.user] + c.amount \in (-MaxXp)..MaxXp
          /\ users' = ExperienceUpdate(users, c.user, new_xp, new_level)
          /\ calls' = [calls EXCEPT ![p] = Finished(@, TRUE, new_level, new_xp)]
          /\ xp_applied' = [xp_applied EXCEPT ![c.user] = @ + c.amount]
    /\ UNCHANGED <<now, user_balance, ret, added, removed, last_claim, moderation, gambling>>

\* A write statement takes SQLite's write lock and keeps it until commit();
\* the write of another connection waits for it (busy timeout).  add_coins
\* holds the lock from its INSERT OR IGNORE to the commit after its UPDATE.
WriteLockFree(p) ==
    \A q \in Procs \ {p} : ~(calls[q].pc = "selected" /\ calls[q].op = "add_coins")

\* create_user_balance: one INSERT OR IGNORE and its commit
create_user_balance_call(p, u, s) ==
    /\ CanCall(p)
    /\ WriteLockFree(p)
    /\ user_balance' = InsertOrIgnoreBalance(user_balance, u, s, now - TimedeltaDay)
    /\ calls' = [calls EXCEPT ![p] =
            Finished(Selected("create_user_balance", u, s, 0, now, 0, 0), TRUE, 0, 0)]
    /\ UNCHANGED <<now, users, ret, added, removed, xp_applied, last_claim, moderation, gambling>>

\* add_coins up to its UPDATE: the INSERT OR IGNORE that ensures the row
add_coins_insert(p, u, s, amount) ==
    /\ CanCall(p)
    /\ WriteLockFree(p)
    /\ user_balance' = InsertOrIgnoreBalance(user_balance, u, s, now - TimedeltaDay)
    /\ calls' = [calls EXCEPT ![p] = Selected("add_coins", u, s, amount, now, 0, 0)]
    /\ UNCHANGED <<now, users, ret, added, removed, xp_applied, last_claim, moderation, gambling>>

\* add_coins from its UPDATE to the commit
add_coins_update(p) ==
    /\ calls[p].pc = "selected"
    /\ calls[p].op = "add_coins"
    /\ user_balance' =
            [i \in DOMAIN user_balance |->
                IF i \in BalanceMatches(user_balance, calls[p].user, calls[p].server)
                THEN AddCoinsRow(user_balance[i], calls[p].amount)
                ELSE user_balance[i]]
    /\ BalanceBounded(user_balance')
    /\ calls' = [calls EXCEPT ![p] = Finished(@, TRUE, 0, 0)]
    /\ added' = Bump(added, calls[p].user, calls[p].server, calls[p].amount)
    /\ UNCHANGED <<now, users, ret, removed, xp_applied, last_claim, moderation, gambling>>

\* the state add_coins(1, 1, c) and add_gems(1, 1, g) leave
InitRemoveRace ==
    \E c \in 0..MaxCoins, g \in 0..MaxCoins :
        /\ now = 0
        /\ users = <<>>
        /\ user_balance =
                <<[NewBalanceRow(<<>>, 1, 1, 0 - TimedeltaDay)
                        EXCEPT !.coins = c, !.total_earned = c, !.gems = g]>>
        /\ ret = NoRet
        /\ calls = [p \in Procs |-> IdleCall]
        /\ added = [k \in Keys |-> IF k = <<1, 1>> THEN c ELSE 0]
        /\ removed = [k \in Keys |-> 0]
        /\ xp_applied = [u \in UserIds |-> 0]
        /\ last_claim = [k \in Keys |-> {}]
        /\ InitModeration
        /\ InitGambling

\* the state create_user_balance(1, 1) leaves
InitClaimRace ==
    /\ now = 0
    /\ users = <<>>
    /\ user_balance = <<NewBalanceRow(<<>>, 1, 1, 0 - TimedeltaDay)>>
    /\ ret = NoRet
    /\ calls = [p \in Procs |-> IdleCall]
    /\ added = [k \in Keys |-> 0]
    /\ removed = [k \in Keys |-> 0]
    /\ xp_applied = [u \in UserIds |-> 0]
    /\ last_claim = [k \in Keys |-> {}]
    /\ InitModeration
    /\ InitGambling

\* the state create_user(1, "ann") leaves
InitXpRace ==
    /\ now = 0
    /\ users = <<NewUserRow(1, "ann", 0)>>
    /\ user_balance = <<>>
    /\ ret = NoRet
    /\ calls = [p \in Procs |-> IdleCall]
    /\ added = [k \in Keys |-> 0]
    /\ removed = [k \in Keys |-> 0]
    /\ xp_applied = [u \in UserIds |-> 0]
    /\ last_claim = [k \in Keys |-> {}]
    /\ InitModeration
    /\ InitGambling

(* --------------------------- specifications ---------------------------- *)
\* coins added and removed, one call after another, non-negative amounts
NextCurrency ==
    \E u \in UserIds, s \in ServerIds :
        \/ create_user_balance(u, s)
        \/ \E amount \in NonNegAmounts :
            \/ add_coins(u, s, amount)
            \/ remove_coins(u, s, amount)

SpecCurrency == Init /\ [][NextCurrency]_vars

\* every balance operation on one (user, server), called with any integer
NextIntAmounts ==
    \E u \in {1}, s \in ServerIds :
        \/ create_user_balance(u, s)
        \/ \E amount \in IntAmounts :
            \/ add_coins(u, s, amount)
            \/ remove_coins(u, s, amount)
            \/ add_gems(u, s, amount)
            \/ remove_gems(u, s, amount)
        \/ \E reward_amount \in IntRewards : claim_daily_reward(u, s, reward_amount)

SpecIntAmounts == Init /\ [][NextIntAmounts]_vars

\* the daily claim over several days
NextDaily ==
    \/ \E u \in UserIds, s \in ServerIds :
        \/ create_user_balance(u, s)
        \/ \E reward_amount \in RewardAmounts : claim_daily_reward(u, s, reward_amount)
    \/ \E t \in Instants : Tick(t)

SpecDaily == Init /\ [][NextDaily]_vars

\* users and their experience
NextXp ==
    \E u \in UserIds :
        \/ \E username \in Usernames : create_user(u, username)
        \/ \E xp \in XpInputs : add_experience(u, xp)

SpecXp == Init /\ [][NextXp]_vars

\* two callers removing coins and gems at once
NextRemoveRace ==
    \E p \in Procs :
        \/ \E u \in UserIds, s \in ServerIds, amount \in NonNegAmounts :
            \/ remove_coins_select(p, u, s, amount)
            \/ remove_gems_select(p, u, s, amount)
        \/ remove_coins_update(p)
        \/ remove_gems_update(p)

SpecRemoveRace == InitRemoveRace /\ [][NextRemoveRace]_vars

\* two callers claiming the daily reward at once
NextClaimRace ==
    \/ \E p \in Procs :
        \/ \E u \in UserIds, s \in ServerIds :
            claim_daily_reward_select(p, u, s, DefaultReward)
        \/ claim_daily_reward_update(p)
    \/ \E t \in Instants : Tick(t)

SpecClaimRace == InitClaimRace /\ [][NextClaimRace]_vars

\* two callers adding experience at once
NextXpRace ==
    \E p \in Procs :
        \/ \E u \in UserIds, xp \in RaceXpInputs : add_experience_select(p, u, xp)
        \/ add_experience_update(p)

SpecXpRace == InitXpRace /\ [][NextXpRace]_vars

\* mutes of one server: issue, lift, lazy check, sweep, and the clock
NextMute ==
    \/ \E u \in UserIds, d \in Durations : mute_user(1, u, 9, "spam", d)
    \/ \E u \in UserIds : unmute_user(1, u)
    \/ \E u \in UserIds : is_user_muted(1, u)
    \/ cleanup_expired_mutes
    \/ \E t \in ModInstants : Elapse(t)

SpecMute == Init /\ [][NextMute]_vars

\* bans of one server, with the optional duration
NextBan ==
    \/ \E u \in UserIds, d \in OptionalDurations : ban_user(1, u, 9, "spam", d)
    \/ \E u \in UserIds : unban_user(1, u)
    \/ \E u \in UserIds : is_user_banned(1, u)
    \/ cleanup_expired_bans
    \/ \E t \in ModInstants : Elapse(t)

SpecBan == Init /\ [][NextBan]_vars

\* the three sanctions and their audit rows, at one instant
NextAudit ==
    \/ \E c \in AuditCalls : warn_user(1, c[1], c[2], c[3])
    \/ \E c \in AuditCalls : mute_user(1, c[1], c[2], c[3], 60)
    \/ \E c \in AuditCalls, d \in {<<>>, <<60>>} : ban_user(1, c[1], c[2], c[3], d)

SpecAudit == Init /\ [][NextAudit]_vars

\* two callers create and ensure balance rows at once, from an empty table
NextEnsureRace ==
    \E p \in Procs :
        \/ \E u \in UserIds, s \in ServerIds : create_user_balance_call(p, u, s)
        \/ \E u \in UserIds, s \in ServerIds, amount \in NonNegAmounts :
                add_coins_insert(p, u, s, amount)
        \/ add_coins_update(p)

SpecEnsureRace == Init /\ [][NextEnsureRace]_vars

\* three users, their experience and reputation, and the ranking
NextTop ==
    \/ \E u \in TopUserIds, username \in Usernames : create_user(u, username)
    \/ \E u \in UserIds, xp \in TopXpInputs : add_experience(u, xp)
    \/ \E u \in TopUserIds, amount \in RepAmounts : add_reputation(u, amount)
    \/ \E metric \in Metrics, limit \in Limits : get_top_users(metric, limit)

SpecTop == Init /\ [][NextTop]_vars

\* gambles of two users on two servers, and their statistics
NextGamble ==
    \E k \in GambleKeys :
        \/ \E c \in GambleCalls : record_gamble(k[1], k[2], "dice", c[1], c[2], c[3])
        \/ get_user_gambling_stats(k[1], k[2])

SpecGamble == Init /\ [][NextGamble]_vars

\* the three coin operations on one pair, non-negative amounts, over days
NextCoins ==
    \/ \E u \in {1}, s \in ServerIds :
        \/ create_user_balance(u, s)
        \/ \E amount \in NonNegAmounts :
            \/ add_coins(u, s, amount)
            \/ remove_coins(u, s, amount)
        \/ \E reward_amount \in RewardAmounts : claim_daily_reward(u, s, reward_amount)
    \/ \E t \in Instants : Tick(t)

SpecCoins == Init /\ [][NextCoins]_vars

(* ------------------------------- claims -------------------------------- *)
\* the row of the call that ret' reports, before and after the step
CalledRow == BalanceRow(user_balance, ret'.user, ret'.server)
CalledRowAfter == BalanceRow(user_balance', ret'.user, ret'.server)
CalledHasRow == HasBalance(user_balance, ret'.user, ret'.server)

\* C1: after any sequence of add_coins and remove_coins calls with
\* non-negative amounts, made one after another, the coins of a (user, server)
\* are the sum of the amounts added minus the sum of the amounts of the
\* removals that returned True, and they are never negative.
C1_BalanceIsAddedMinusRemoved ==
    /\ \A i \in DOMAIN user_balance :
        LET r == user_balance[i]
        IN /\ r.coins = added[<<r.user_id, r.server_id>>]
                            - removed[<<r.user_id, r.server_id>>]
           /\ r.coins >= 0
    /\ \A k \in Keys :
        ~HasBalance(user_balance, k[1], k[2]) => added[k] = 0 /\ removed[k] = 0

\* a removal fails for lack of funds after coins were added and removed
C1_Witness ==
    /\ ret.op = "remove_coins" /\ ~ret.ok
    /\ HasBalance(user_balance, ret.user, ret.server)
    /\ added[<<ret.user, ret.server>>] >= 3
    /\ removed[<<ret.user, ret.server>>] >= 2

\* C2: two remove_coins (or remove_gems) calls running at once on one
\* (user, server) never both take from the balance they both read: when both
\* return True after fetching the same balance, their amounts together do not
\* exceed it, and coins and gems are never negative.
C2_NoDoubleSpend ==
    /\ \A i \in DOMAIN user_balance :
        user_balance[i].coins >= 0 /\ user_balance[i].gems >= 0
    /\ \A p, q \in Procs :
        (/\ p # q
         /\ calls[p].pc = "returned" /\ calls[q].pc = "returned"
         /\ calls[p].ok /\ calls[q].ok
         /\ calls[p].op \in {"remove_coins", "remove_gems"}
         /\ calls[p].op = calls[q].op
         /\ calls[p].user = calls[q].user /\ calls[p].server = calls[q].server
         /\ calls[p].seen = calls[q].seen)
        => calls[p].amount + calls[q].amount <= calls[p].seen

\* C3: two claim_daily_reward calls running at once on one (user, server)
\* never both succeed: two successful claims are at least 24h apart, and a
\* row that exists since instant 0 has been credited at most one reward, and
\* has advanced its streak at most once, per day begun.
C3_NoDoubleClaim ==
    /\ \A p, q \in Procs :
        (/\ p # q
         /\ calls[p].pc = "returned" /\ calls[q].pc = "returned"
         /\ calls[p].ok /\ calls[q].ok
         /\ calls[p].op = "claim_daily_reward" /\ calls[q].op = "claim_daily_reward"
         /\ calls[p].user = calls[q].user /\ calls[p].server = calls[q].server)
        => (calls[p].t - calls[q].t >= 24 * 3600 \/ calls[q].t - calls[p].t >= 24 * 3600)
    /\ \A i \in DOMAIN user_balance :
        /\ user_balance[i].coins <= 100 * (1 + now \div (24 * 3600))
        /\ user_balance[i].total_earned <= 100 * (1 + now \div (24 * 3600))
        /\ user_balance[i].daily_streak <= 1 + now \div (24 * 3600)

\* C4: two add_experience calls running at once on one user lose no update:
\* the stored experience is the prior experience plus the xp of every call
\* that has returned, and the level is the one of that experience.
C4_NoLostUpdate ==
    \A i \in DOMAIN users :
        /\ users[i].experience = xp_applied[users[i].user_id]
        /\ (users[i].level - 1) * 1000 <= users[i].experience
        /\ users[i].experience < users[i].level * 1000

\* C5: remove_coins / remove_gems called with an amount greater than the
\* current balance of that currency returns False and leaves the whole
\* user_balance table as it was.
C5_Step ==
    /\ (/\ ret'.op = "remove_coins"
        /\ CalledHasRow
        /\ ret'.amount > CalledRow.coins)
       => (~ret'.ok /\ user_balance' = user_balance)
    /\ (/\ ret'.op = "remove_gems"
        /\ CalledHasRow
        /\ ret'.amount > CalledRow.gems)
       => (~ret'.ok /\ user_balance' = user_balance)

\* C5: every step satisfies C5_Step: a removal of more than the balance fails
\* and changes nothing.
C5_FailedRemoveChangesNothing == [][C5_Step]_vars

\* more gems asked for than the row holds, while its coins would suffice
C5_Witness ==
    /\ ret.op = "remove_gems" /\ ~ret.ok
    /\ HasBalance(user_balance, ret.user, ret.server)
    /\ BalanceRow(user_balance, ret.user, ret.server).gems = 1
    /\ BalanceRow(user_balance, ret.user, ret.server).coins >= 2
    /\ ret.amount = 2

\* C6: the first claim right after the row was created succeeds with streak
\* 1; a claim less than 24h after the last successful claim fails; one at
\* [24h, 48h) after it succeeds with the streak incremented; one at 48h or
\* later succeeds with streak 1; a successful claim adds reward_amount to
\* coins and total_earned and sets last_daily to now.
C6_Step ==
    (ret'.op = "claim_daily_reward" /\ CalledHasRow) =>
        LET k == <<ret'.user, ret'.server>>
        IN /\ (/\ last_claim[k] = {}
               /\ CalledRow.last_daily = now - TimedeltaDay
               /\ CalledRow.daily_streak = 0)
              => (ret'.ok /\ ret'.v1 = 1 /\ CalledRowAfter.daily_streak = 1)
           /\ \A tc \in last_claim[k] :
                /\ now - tc < 24 * 3600 => ~ret'.ok
                /\ (now - tc >= 24 * 3600 /\ now - tc < 48 * 3600)
                   => /\ ret'.ok
                      /\ ret'.v1 = CalledRow.daily_streak + 1
                      /\ CalledRowAfter.daily_streak = CalledRow.daily_streak + 1
                /\ now - tc >= 48 * 3600
                   => (ret'.ok /\ ret'.v1 = 1 /\ CalledRowAfter.daily_streak = 1)
           /\ ret'.ok
              => /\ CalledRowAfter.coins = CalledRow.coins + ret'.amount
                 /\ CalledRowAfter.total_earned = CalledRow.total_earned + ret'.amount
                 /\ CalledRowAfter.last_daily = now
                 /\ last_claim'[k] = {now}

\* C6: every step satisfies C6_Step: the streak progression of the daily claim.
C6_StreakProgression == [][C6_Step]_vars

\* a claim two days or more after the previous one: the streak is back at 1
\* and both rewards are in the balance
C6_Witness ==
    /\ ret.op = "claim_daily_reward" /\ ret.ok /\ ret.v1 = 1 /\ ret.amount = 2
    /\ BalanceRow(user_balance, ret.user, ret.server).coins = 4
    /\ BalanceRow(user_balance, ret.user, ret.server).last_daily = now

\* C7: a claim made less than 24h after the last successful one returns
\* (False, current streak) and writes nothing: coins, total_earned,
\* daily_streak and last_daily stay as they were.
C7_Step ==
    (/\ ret'.op = "claim_daily_reward"
     /\ CalledHasRow
     /\ \E tc \in last_claim[<<ret'.user, ret'.server>>] : now - tc < 24 * 3600)
    => /\ ~ret'.ok
       /\ ret'.v1 = CalledRow.daily_streak
       /\ user_balance' = user_balance
       /\ last_claim' = last_claim

\* C7: every step satisfies C7_Step: a claim rejected before 24h changes nothing.
C7_RejectedClaimChangesNothing == [][C7_Step]_vars

\* a claim rejected one second before the 24h are over, streak 2 reported
C7_Witness ==
    /\ ret.op = "claim_daily_reward" /\ ~ret.ok /\ ret.v1 = 2
    /\ \E tc \in last_claim[<<ret.user, ret.server>>] : now - tc = 24 * 3600 - 1

\* C8: every users row has level = 1 + floor(experience / 1000);
\* add_experience(u, 1500) on a fresh user returns (2, 1500) and
\* add_experience(u, -600) after it returns (1, 900).
C8_LevelMatches ==
    \A i \in DOMAIN users :
        /\ (users[i].level - 1) * 1000 <= users[i].experience
        /\ users[i].experience < users[i].level * 1000

C8_Step ==
    (ret'.op = "add_experience" /\ HasUser(users, ret'.user)) =>
        LET before == UserRow(users, ret'.user)
        IN /\ (before.experience = 0 /\ ret'.amount = 1500)
              => (ret'.ok /\ ret'.v1 = 2 /\ ret'.v2 = 1500)
           /\ (before.experience = 1500 /\ ret'.amount = -600)
              => (ret'.ok /\ ret'.v1 = 1 /\ ret'.v2 = 900)
           /\ ret'.ok
              => /\ UserRow(users', ret'.user).level = ret'.v1
                 /\ UserRow(users', ret'.user).experience = ret'.v2

\* C8: the level of every row is 1 + floor(experience / 1000) in every state,
\* and every add_experience step returns and stores the values of the example.
C8_LevelIsFunctionOfExperience == []C8_LevelMatches /\ [][C8_Step]_vars

\* the second call of the example has returned (1, 900)
C8_Witness ==
    /\ ret.op = "add_experience" /\ ret.ok /\ ret.amount = -600
    /\ ret.v1 = 1 /\ ret.v2 = 900
    /\ UserRow(users, ret.user).experience = 900

\* C9: after any add_experience calls with any integer xp, every users row
\* has level >= 1 and experience >= 0.
C9_LevelAndExperienceFloors ==
    \A i \in DOMAIN users : users[i].level >= 1 /\ users[i].experience >= 0

\* C10: after any balance operation with any integer amount, every row has
\* coins >= 0, gems >= 0, total_earned >= 0 and total_spent >= 0.
C10_BalancesNeverNegative ==
    \A i \in DOMAIN user_balance :
        /\ user_balance[i].coins >= 0
        /\ user_balance[i].gems >= 0
        /\ user_balance[i].total_earned >= 0
        /\ user_balance[i].total_spent >= 0

\* C11: add_coins / add_gems called with a negative amount is rejected: the
\* coins, gems and total_earned of an existing row stay as they were; an
\* amount of zero is accepted and leaves them unchanged as well.
C11_Step ==
    (ret'.op \in {"add_coins", "add_gems"} /\ CalledHasRow /\ ret'.amount <= 0)
    => /\ CalledRowAfter.coins = CalledRow.coins
       /\ CalledRowAfter.gems = CalledRow.gems
       /\ CalledRowAfter.total_earned = CalledRow.total_earned
       /\ ret'.amount = 0 => ret'.ok

\* C11: every step satisfies C11_Step: a negative amount adds nothing.
C11_NegativeAddRejected == [][C11_Step]_vars

\* the row the call of this step works on: the stored one, or the one the
\* call's INSERT OR IGNORE creates
CalledRowOrNew ==
    IF CalledHasRow THEN CalledRow
    ELSE NewBalanceRow(user_balance, ret'.user, ret'.server, now - TimedeltaDay)

\* C12: for coins and for gems, an add of amount a raises the balance and
\* total_earned by a, a successful removal of a lowers the balance and raises
\* total_spent by a, and a failed removal changes neither.
C12_Step ==
    /\ ret'.op = "add_coins"
       => /\ CalledRowAfter.coins = CalledRowOrNew.coins + ret'.amount
          /\ CalledRowAfter.total_earned = CalledRowOrNew.total_earned + ret'.amount
    /\ ret'.op = "add_gems"
       => /\ CalledRowAfter.gems = CalledRowOrNew.gems + ret'.amount
          /\ CalledRowAfter.total_earned = CalledRowOrNew.total_earned + ret'.amount
    /\ (ret'.op = "remove_coins" /\ ret'.ok)
       => /\ CalledRowAfter.coins = CalledRow.coins - ret'.amount
          /\ CalledRowAfter.total_spent = CalledRow.total_spent + ret'.amount
    /\ (ret'.op = "remove_gems" /\ ret'.ok)
       => /\ CalledRowAfter.gems = CalledRow.gems - ret'.amount
          /\ CalledRowAfter.total_spent = CalledRow.total_spent + ret'.amount
    /\ (ret'.op \in {"remove_coins", "remove_gems"} /\ ~ret'.ok)
       => user_balance' = user_balance

\* C12: every step satisfies C12_Step: the running totals follow both currencies.
C12_TotalsFollowBothCurrencies == [][C12_Step]_vars

\* C13: create_user on an id that already has a row leaves the users table
\* as it was (one row per id), and the User it returns equals the stored row,
\* not a User built from the arguments of the new call.
C13_Step ==
    ret'.op = "create_user"
    => /\ Cardinality(UserMatches(users', ret'.user)) = 1
       /\ HasUser(users, ret'.user)
          => /\ users' = users
             /\ ret'.user_obj = <<UserRow(users, ret'.user)>>

\* C13: every step satisfies C13_Step: create_user is idempotent and returns
\* the stored state.
C13_CreateUserIdempotent == [][C13_Step]_vars

\* the rows of a sanction table that are active for the pair and whose
\* expiry is after the present instant
UnexpiredActiveRows(tbl, s, u) ==
    {i \in ActiveRows(tbl, s, u) :
        DatetimeAfter(FromIsoFormat(tbl[i].expire_time), Utcnow)}

\* C14: is_user_muted / is_user_banned returns True exactly when at least
\* one row of the pair is active with now < expire_time, whatever the number
\* of rows of the pair, the instant now = expire_time included.
C14_Step ==
    /\ ret'.op = "is_user_muted"
       => (ret'.ok <=> UnexpiredActiveRows(mutes, ret'.server, ret'.user) # {})
    /\ ret'.op = "is_user_banned"
       => (ret'.ok <=> UnexpiredActiveRows(bans, ret'.server, ret'.user) # {})

\* C14: every step satisfies C14_Step: the lazy check answers for all rows.
C14_ActiveMeansUnexpiredRow == [][C14_Step]_vars

\* the only mute of the pair, when the pair has exactly one and unmute_user
\* was never called on it
SingleUnliftedMute(s, u) ==
    {i \in PairRows(mutes, s, u) :
        PairRows(mutes, s, u) = {i} /\ ~mute_log[i].lifted}

\* C15: for a pair with a single mute issued at t for d minutes and never
\* lifted, is_user_muted answers True at every instant of [t, t + d) and
\* False at every instant after t + d, whether or not the sweeper has run.
C15_Step ==
    ret'.op = "is_user_muted"
    => \A i \in SingleUnliftedMute(ret'.server, ret'.user) :
          /\ (mute_log[i].t <= now /\ now < mute_log[i].t + 60 * mute_log[i].d)
             => ret'.ok
          /\ now > mute_log[i].t + 60 * mute_log[i].d => ~ret'.ok

\* C15: every step satisfies C15_Step.
C15_SingleMuteWindow == [][C15_Step]_vars

\* a 60 minute mute issued at 0 was swept and is reported as over 61 minutes
\* after it was issued
C15_Witness ==
    /\ ret.op = "is_user_muted"
    /\ ~ret.ok
    /\ now = 3660
    /\ \E i \in SingleUnliftedMute(ret.server, ret.user) :
          /\ mute_log[i].t = 0
          /\ mute_log[i].d = 60
          /\ mutes[i].active = 0

\* the expiry test of the lazy check and of the sweeper agree on every row
SameExpiryTest(tbl) ==
    \A i \in DOMAIN tbl :
        DatetimeAfter(Utcnow, FromIsoFormat(tbl[i].expire_time))
        <=> TextBefore(tbl[i].expire_time, IsoFormat(Utcnow))

\* C16: the sweeper and the lazy check apply the same expiry test to every
\* row at every instant, and so a sweep never changes the answer of
\* is_user_muted / is_user_banned at the instant of the sweep.
C16_Step ==
    /\ SameExpiryTest(mutes) /\ SameExpiryTest(bans)
    /\ ret'.op = "cleanup_expired_mutes"
       => \A s \in ServerIds, u \in UserIds :
             IsSanctioned(mutes', s, u) <=> IsSanctioned(mutes, s, u)
    /\ ret'.op = "cleanup_expired_bans"
       => \A s \in ServerIds, u \in UserIds :
             IsSanctioned(bans', s, u) <=> IsSanctioned(bans, s, u)

\* C16: every step satisfies C16_Step.
C16_SweepKeepsAnswer == [][C16_Step]_vars

\* the first half of C16 alone: the two expiry tests agree on every row
C16_TestsAgree == SameExpiryTest(mutes) /\ SameExpiryTest(bans)

\* a sweep step changed tbl into tbl2 as the claim allows: only active rows
\* whose expire_time is before now were touched, and only their active flag
SweptOnlyExpired(tbl, tbl2) ==
    /\ DOMAIN tbl2 = DOMAIN tbl
    /\ \A i \in DOMAIN tbl :
          IF tbl[i].active = 1
             /\ DatetimeAfter(Utcnow, FromIsoFormat(tbl[i].expire_time))
          THEN tbl2[i] = [tbl[i] EXCEPT !.active = 0]
          ELSE tbl2[i] = tbl[i]

\* C17: a sweep deactivates the active rows whose expire_time is before now
\* and no other row; a second sweep at the same instant changes nothing; and
\* the lazy check keeps answering False for a pair whose rows are all
\* deactivated.
C17_Step ==
    /\ ret'.op = "cleanup_expired_mutes"
       => /\ SweptOnlyExpired(mutes, mutes')
          /\ ret.op = "cleanup_expired_mutes" => mutes' = mutes
    /\ ret'.op = "cleanup_expired_bans"
       => /\ SweptOnlyExpired(bans, bans')
          /\ ret.op = "cleanup_expired_bans" => bans' = bans
    /\ (ret'.op = "is_user_muted" /\ ActiveRows(mutes, ret'.server, ret'.user) = {})
       => ~ret'.ok
    /\ (ret'.op = "is_user_banned" /\ ActiveRows(bans, ret'.server, ret'.user) = {})
       => ~ret'.ok

\* C17: every step satisfies C17_Step.
C17_SweepIdempotent == [][C17_Step]_vars

\* a sweep has deactivated an expired mute and kept one that expires at
\* this very instant
C17_Witness ==
    /\ ret.op = "cleanup_expired_mutes"
    /\ \E i, j \in DOMAIN mutes :
          /\ mutes[i].active = 0
          /\ ~mute_log[i].lifted
          /\ DatetimeAfter(Utcnow, FromIsoFormat(mutes[i].expire_time))
          /\ mutes[j].active = 1
          /\ FromIsoFormat(mutes[j].expire_time) = Utcnow

\* issued_at + minutes, computed on the clock in seconds
IssuedPlusMinutes(minutes) ==
    IsoFormat(<<(now + 60 * minutes) \div TimedeltaDay,
                (now + 60 * minutes) % TimedeltaDay>>)

\* issued_at + 100 years, as 365 * 100 days
IssuedPlusCentury ==
    IsoFormat(<<(now \div TimedeltaDay) + PermanentDays, now % TimedeltaDay>>)

\* C18: mute_user and ban_user store a row with active = 1 and expire_time =
\* issue time + duration minutes when a duration >= 0 is supplied, and
\* issue time + 100 years when the duration is absent; they return the id of
\* the new row.
C18_Step ==
    /\ ret'.op = "mute_user"
       => /\ Len(mutes') = Len(mutes) + 1
          /\ mutes'[Len(mutes')].active = 1
          /\ mutes'[Len(mutes')].expire_time = IssuedPlusMinutes(ret'.amount)
          /\ mutes'[Len(mutes')].mute_id = ret'.v1
    /\ ret'.op = "ban_user"
       => /\ Len(bans') = Len(bans) + 1
          /\ bans'[Len(bans')].active = 1
          /\ bans'[Len(bans')].expire_time =
                IF ret'.v2 = 1 THEN IssuedPlusMinutes(ret'.amount)
                ELSE IssuedPlusCentury
          /\ bans'[Len(bans')].ban_id = ret'.v1

\* C18: every step satisfies C18_Step.
C18_ExpiryFromDuration == [][C18_Step]_vars

\* what the claim compares of a row: server, user, moderator and reason
Described(tbl) ==
    [i \in DOMAIN tbl |->
        <<tbl[i].server_id, tbl[i].user_id, tbl[i].moderator_id, tbl[i].reason>>]

IsWarnRecord(r) == r.action_type = "warn"
IsMuteRecord(r) == r.action_type = "mute"
IsBanRecord(r) == r.action_type = "ban"

\* C19: in every committed state the moderation_records rows of action_type
\* warn / mute / ban are as many as the warnings / mutes / bans rows and
\* carry the same server_id, user_id, moderator_id and reason, row by row.
C19_AuditMatchesSanctions ==
    /\ Described(SelectSeq(moderation_records, IsWarnRecord)) = Described(warnings)
    /\ Described(SelectSeq(moderation_records, IsMuteRecord)) = Described(mutes)
    /\ Described(SelectSeq(moderation_records, IsBanRecord)) = Described(bans)
    /\ \A i \in DOMAIN moderation_records :
          moderation_records[i].action_type \in {"warn", "mute", "ban"}

\* the three kinds of sanction were issued, by different moderators for
\* different reasons
C19_Witness ==
    /\ warnings # <<>> /\ mutes # <<>> /\ bans # <<>>
    /\ \E i, j \in DOMAIN moderation_records :
          /\ moderation_records[i].moderator_id # moderation_records[j].moderator_id
          /\ moderation_records[i].reason # moderation_records[j].reason
          /\ moderation_records[i].user_id # moderation_records[j].user_id

\* a lift step on (s, u) changed tbl into tbl2 as the claim allows: no row
\* of the pair is active afterwards and the rows of other pairs are untouched
LiftedOnlyPair(tbl, tbl2, s, u) ==
    /\ DOMAIN tbl2 = DOMAIN tbl
    /\ ActiveRows(tbl2, s, u) = {}
    /\ \A i \in DOMAIN tbl \ PairRows(tbl, s, u) : tbl2[i] = tbl[i]

\* no row of the pair is active in tbl, and the step is not one that issues
\* a new sanction of that kind for the pair
StaysLifted(tbl, tbl2, issue) ==
    \A s \in ServerIds, u \in UserIds :
        (/\ ActiveRows(tbl, s, u) = {}
         /\ ~(ret'.op = issue /\ ret'.server = s /\ ret'.user = u))
        => ActiveRows(tbl2, s, u) = {}

\* C20: unmute_user / unban_user succeeds, with or without rows of the pair,
\* leaves no active row of the pair and touches no row of another pair; from
\* then on is_user_muted / is_user_banned answers False for the pair until
\* mute_user / ban_user is called for it again.
C20_Step ==
    /\ ret'.op = "unmute_user"
       => ret'.ok /\ LiftedOnlyPair(mutes, mutes', ret'.server, ret'.user)
    /\ ret'.op = "unban_user"
       => ret'.ok /\ LiftedOnlyPair(bans, bans', ret'.server, ret'.user)
    /\ StaysLifted(mutes, mutes', "mute_user")
    /\ StaysLifted(bans, bans', "ban_user")
    /\ (/\ ret'.op = "is_user_muted"
        /\ \A i \in PairRows(mutes, ret'.server, ret'.user) : mute_log[i].lifted)
       => ~ret'.ok
    /\ (ret'.op = "is_user_banned" /\ ActiveRows(bans, ret'.server, ret'.user) = {})
       => ~ret'.ok

\* C20: every step satisfies C20_Step.
C20_LiftedUntilReissued == [][C20_Step]_vars

\* the lazy check answers False for a pair whose two unexpired mutes were
\* lifted
C20_Witness ==
    /\ ret.op = "is_user_muted"
    /\ ~ret.ok
    /\ \E i, j \in PairRows(mutes, ret.server, ret.user) :
          /\ i # j
          /\ mute_log[i].lifted /\ mute_log[j].lifted
          /\ DatetimeAfter(FromIsoFormat(mutes[i].expire_time), Utcnow)
          /\ DatetimeAfter(FromIsoFormat(mutes[j].expire_time), Utcnow)

\* C21: every (user, server) pair has at most one user_balance row in every
\* reachable state, and exactly one as soon as a create_user_balance or an
\* add_coins for the pair has inserted, also when two callers run these
\* calls at once on a pair that has no row yet.
C21_OneRowPerPair ==
    /\ \A k \in Keys : Cardinality(BalanceMatches(user_balance, k[1], k[2])) <= 1
    /\ \A p \in Procs :
          calls[p].op \in {"create_user_balance", "add_coins"}
          => Cardinality(BalanceMatches(user_balance, calls[p].user, calls[p].server)) = 1

\* a caller returned from create_user_balance on a pair while the other is
\* inside add_coins on the same pair, between its INSERT and its UPDATE
C21_Witness ==
    \E p, q \in Procs :
        /\ calls[p].pc = "returned" /\ calls[p].op = "create_user_balance"
        /\ calls[q].pc = "selected" /\ calls[q].op = "add_coins"
        /\ calls[p].user = calls[q].user /\ calls[p].server = calls[q].server
        /\ Len(user_balance) = 1

\* the metric the claim takes as effective for the metric passed
C22_Effective(metric) ==
    IF metric \in {"level", "coins", "gems", "experience", "reputation"}
    THEN metric ELSE "level"

\* C22: get_top_users is never rejected and changes nothing; its result has
\* at most limit entries, which are distinct rows of users in descending
\* order of the effective metric with no omitted row above the last one; for
\* a metric outside the allow-list it is exactly the result for "level".
C22_Step ==
    ret'.op = "get_top_users"
    => LET rows == ret'.data
           column == C22_Effective(ret'.text)
       IN /\ ret'.ok
          /\ users' = users
          /\ Len(rows) <= ret'.amount
          /\ Len(rows) = ret'.amount \/ Len(rows) = Len(users)
          /\ \A i \in DOMAIN rows : \E j \in DOMAIN users : rows[i] = users[j]
          /\ \A i, j \in DOMAIN rows : i # j => rows[i].user_id # rows[j].user_id
          /\ \A i, j \in DOMAIN rows : i < j => rows[i][column] >= rows[j][column]
          /\ \A i \in DOMAIN rows, j \in DOMAIN users :
                (\A k \in DOMAIN rows : rows[k].user_id # users[j].user_id)
                => rows[i][column] >= users[j][column]
          /\ ret'.text \notin ValidMetrics => rows = TopUsers("level", ret'.amount)

\* C22: every step satisfies C22_Step.
C22_TopUsersFallsBackToLevel == [][C22_Step]_vars

\* get_top_users("DROP TABLE", 2) on three users ranked the user stored
\* second first, by level, while the ranking by reputation differs
C22_Witness ==
    /\ ret.op = "get_top_users"
    /\ ret.text = "DROP TABLE"
    /\ Len(users) = 3
    /\ Len(ret.data) = 2
    /\ ret.data[1].user_id = 2
    /\ ret.data[1].level > ret.data[2].level
    /\ ret.data # TopUsers("reputation", 2)

\* C23: get_user_gambling_stats reports, over the records of the pair alone,
\* total_games = number of records, wins / losses = number with result win /
\* lose, total_bet and total_winnings = the sums, avg_profit = the mean of
\* winnings - bet_amount; with no record the count is zero and the other
\* values are absent.  The expected values are what the record_gamble calls
\* for the pair passed.
C23_Step ==
    ret'.op = "get_user_gambling_stats"
    => LET d == ret'.data
           g == gamble_log[<<ret'.user, ret'.server>>]
       IN /\ gamble_records' = gamble_records
          /\ d.total_games = g.games
          /\ IF g.games = 0
             THEN /\ d.wins = <<>> /\ d.losses = <<>>
                  /\ d.total_bet = <<>> /\ d.total_winnings = <<>>
                  /\ d.avg_profit = <<>>
             ELSE /\ d.wins = <<g.wins>> /\ d.losses = <<g.losses>>
                  /\ d.total_bet = <<g.bet>> /\ d.total_winnings = <<g.winnings>>
                  /\ d.avg_profit[2] # 0
                  /\ d.avg_profit[1] * g.games = (g.winnings - g.bet) * d.avg_profit[2]

\* C23: every step satisfies C23_Step.
C23_StatsAreExact == [][C23_Step]_vars

\* one win of 10 -> 20 and one loss of 10 -> 0 for the pair, a third record
\* for another pair: 2 games, 1 win, 1 loss, average profit 0
C23_Witness ==
    /\ ret.op = "get_user_gambling_stats"
    /\ Len(gamble_records) = 3
    /\ ret.data.total_games = 2
    /\ ret.data.wins = <<1>>
    /\ ret.data.losses = <<1>>
    /\ ret.data.total_bet = <<20>>
    /\ ret.data.total_winnings = <<20>>
    /\ ret.data.avg_profit[1] = 0

\* C24: add_experience on a user_id without a users row returns the
\* not-found outcome (None) and changes no state: no row is created and no
\* user's experience or level changes.
C24_Step ==
    (ret'.op = "add_experience" /\ ~HasUser(users, ret'.user))
    => /\ ~ret'.ok
       /\ users' = users
       /\ xp_applied' = xp_applied

\* C24: every step satisfies C24_Step.
C24_AbsentUserNotFound == [][C24_Step]_vars

\* add_experience was refused for a user without a row while another user
\* has a row with experience
C24_Witness ==
    /\ ret.op = "add_experience"
    /\ ~ret.ok
    /\ ~HasUser(users, ret.user)
    /\ \E i \in DOMAIN users : users[i].experience # 0

\* the rows of tbl whose active flag the step cleared
Deactivated(tbl, tbl2) ==
    {i \in DOMAIN tbl : tbl[i].active = 1 /\ tbl2[i].active = 0}

\* the pair has active rows and every one of them is past its expiry
LazilyExpired(tbl, s, u) ==
    /\ ActiveRows(tbl, s, u) # {}
    /\ \A i \in ActiveRows(tbl, s, u) :
          DatetimeAfter(Utcnow, FromIsoFormat(tbl[i].expire_time))

\* C25: is_user_muted / is_user_banned write nothing; on a pair whose active
\* rows are all past their expiry they answer False and leave the rows
\* active; only a sweep or unmute_user / unban_user clears an active flag.
C25_Step ==
    /\ ret'.op \in {"is_user_muted", "is_user_banned"}
       => /\ mutes' = mutes /\ bans' = bans
          /\ warnings' = warnings /\ moderation_records' = moderation_records
    /\ (ret'.op = "is_user_muted" /\ LazilyExpired(mutes, ret'.server, ret'.user))
       => ~ret'.ok /\ LazilyExpired(mutes', ret'.server, ret'.user)
    /\ (ret'.op = "is_user_banned" /\ LazilyExpired(bans, ret'.server, ret'.user))
       => ~ret'.ok /\ LazilyExpired(bans', ret'.server, ret'.user)
    /\ Deactivated(mutes, mutes') # {}
       => ret'.op \in {"cleanup_expired_mutes", "unmute_user"}
    /\ Deactivated(bans, bans') # {}
       => ret'.op \in {"cleanup_expired_bans", "unban_user"}

\* C25: every step satisfies C25_Step.
C25_LazyCheckReadsOnly == [][C25_Step]_vars

\* is_user_muted answered False on a pair whose mute is past its expiry and
\* still active
C25_Witness ==
    /\ ret.op = "is_user_muted"
    /\ ~ret.ok
    /\ LazilyExpired(mutes, ret.server, ret.user)

\* every balance row has coins = total_earned - total_spent
C26_CoinsAreEarnedMinusSpent ==
    \A i \in DOMAIN user_balance :
        user_balance[i].coins
            = user_balance[i].total_earned - user_balance[i].total_spent

\* no row's total_earned or total_spent decreases, and no row disappears
C26_Step ==
    /\ Len(user_balance') >= Len(user_balance)
    /\ \A i \in DOMAIN user_balance :
          /\ user_balance'[i].total_earned >= user_balance[i].total_earned
          /\ user_balance'[i].total_spent >= user_balance[i].total_spent

\* C26: when only add_coins, remove_coins and claim_daily_reward with
\* non-negative amounts are applied, every balance row has coins =
\* total_earned - total_spent in every reachable state and total_earned and
\* total_spent never decrease.
C26_TotalsAccountForCoins == []C26_CoinsAreEarnedMinusSpent /\ [][C26_Step]_vars

\* a row that earned by add_coins and by a claim and spent by remove_coins
C26_Witness ==
    \E i \in DOMAIN user_balance :
        LET r == user_balance[i]
            k == <<r.user_id, r.server_id>>
        IN /\ added[k] > 0
           /\ removed[k] > 0
           /\ last_claim[k] # {}
           /\ r.total_earned > added[k]
           /\ r.total_spent > 0

\* C27: create_user_balance, add_coins and add_gems on a pair that has a row
\* leave the row's last_daily and daily_streak as they were and its coins as
\* they were apart from the amount add_coins adds, add no row, and so a
\* claim that would be rejected before the call is rejected after it.
C27_Step ==
    (ret'.op \in {"create_user_balance", "add_coins", "add_gems"} /\ CalledHasRow)
    => /\ Len(user_balance') = Len(user_balance)
       /\ CalledRowAfter.last_daily = CalledRow.last_daily
       /\ CalledRowAfter.daily_streak = CalledRow.daily_streak
       /\ CalledRowAfter.coins
            = CalledRow.coins + (IF ret'.op = "add_coins" THEN ret'.amount ELSE 0)
       /\ ClaimRejected(now - CalledRow.last_daily)
          => ClaimRejected(now' - CalledRowAfter.last_daily)

\* C27: every step satisfies C27_Step.
C27_EnsureKeepsClaimState == [][C27_Step]_vars

\* create_user_balance returned on a pair that has claimed: the streak is
\* kept and a claim is still refused
C27_Witness ==
    /\ ret.op = "create_user_balance"
    /\ last_claim[<<ret.user, ret.server>>] # {}
    /\ HasBalance(user_balance, ret.user, ret.server)
    /\ BalanceRow(user_balance, ret.user, ret.server).daily_streak = 1
    /\ ClaimRejected(now - BalanceRow(user_balance, ret.user, ret.server).last_daily)

\* C28: on a pair without a balance row, remove_coins / remove_gems return
\* False and claim_daily_reward returns (False, 0), and none of them creates
\* a row; add_coins / add_gems on such a pair create the row with zero
\* balances, totals and streak and then add the amount.
C28_Step ==
    ~CalledHasRow
    => /\ ret'.op \in {"remove_coins", "remove_gems"}
          => ~ret'.ok /\ user_balance' = user_balance
       /\ ret'.op = "claim_daily_reward"
          => ~ret'.ok /\ ret'.v1 = 0 /\ user_balance' = user_balance
       /\ ret'.op \in {"add_coins", "add_gems"}
          => /\ Len(user_balance') = Len(user_balance) + 1
             /\ HasBalance(user_balance', ret'.user, ret'.server)
             /\ CalledRowAfter.coins = (IF ret'.op = "add_coins" THEN ret'.amount ELSE 0)
             /\ CalledRowAfter.gems = (IF ret'.op = "add_gems" THEN ret'.amount ELSE 0)
             /\ CalledRowAfter.total_earned
                    = (IF ret'.op = "add_coins" THEN ret'.amount ELSE 0)
             /\ CalledRowAfter.total_spent = 0
             /\ CalledRowAfter.daily_streak = 0
             /\ CalledRowAfter.bank_balance = 0

\* C28: every step satisfies C28_Step.
C28_MissingRowHandling == [][C28_Step]_vars

\* claim_daily_reward was refused with streak 0 on a pair without a row
C28_Witness ==
    /\ ret.op = "claim_daily_reward"
    /\ ~ret.ok
    /\ ret.v1 = 0
    /\ ~HasBalance(user_balance, ret.user, ret.server)

\* a step changed tbl into tbl2 as the claim allows: rows are only appended,
\* an appended row is active, and an existing row changes in nothing but its
\* active flag, which may only go from 1 to 0
OnlyDeactivates(tbl, tbl2) ==
    /\ Len(tbl2) >= Len(tbl)
    /\ \A i \in DOMAIN tbl2 \ DOMAIN tbl : tbl2[i].active = 1
    /\ \A i \in DOMAIN tbl :
          /\ tbl2[i].active <= tbl[i].active
          /\ tbl2[i] = [tbl[i] EXCEPT !.active = tbl2[i].active]

\* C29: the active flag of a mute or ban row starts at 1 and once 0 stays 0;
\* mute_user / ban_user always append a row and touch no existing one; the
\* expire_time of an existing row never changes.
C29_Step ==
    /\ OnlyDeactivates(mutes, mutes')
    /\ OnlyDeactivates(bans, bans')
    /\ ret'.op = "mute_user"
       => Len(mutes') = Len(mutes) + 1 /\ SubSeq(mutes', 1, Len(mutes)) = mutes
    /\ ret'.op = "ban_user"
       => Len(bans') = Len(bans) + 1 /\ SubSeq(bans', 1, Len(bans)) = bans

\* C29: every step satisfies C29_Step.
C29_ActiveFlagMonotonic == [][C29_Step]_vars

\* a user was muted again after the first mute was deactivated: the old row
\* is still inactive and the new one is a second row
C29_Witness ==
    /\ ret.op = "mute_user"
    /\ \E i, j \in PairRows(mutes, ret.server, ret.user) :
          /\ i < j
          /\ mutes[i].active = 0
          /\ mutes[j].active = 1
          /\ mutes[j].mute_id = ret.v1

====
